---- MODULE Spec2Model ----
(***************************************************************************)
(* A model of the command-line chatbot of src/chatbot.py (OpenAI) and      *)
(* src/geminiChatBot.py (Gemini): the conversation engine (answer_faq,     *)
(* summarize_text, send_to_openai), the history store (_save_to_history,   *)
(* chat_history.json) and the console loop (main, get_user_choice,         *)
(* get_multiline_input, format_response).                                  *)
(*                                                                         *)
(* Texts are TLA+ strings; Len, \o and SubSeq act on them as on Python's   *)
(* str.  The absent value None is the record None; a text t is Text(t).    *)
(***************************************************************************)
EXTENDS Integers, Sequences, FiniteSets, TLC

VARIABLES
    conversation_history,   \* AIChatbot.conversation_history: the session list
    current_mode,           \* AIChatbot.current_mode: "None", "FAQ" or "SUMMARIZE"
    file,                   \* chat_history.json on disk: [kind, data]
    file0,                  \* the file as it was when the session started
    pc,                     \* position of the program (main's loop, or a unit under test)
    typed,                  \* the last line read by get_user_choice
    choice,                 \* main's local choice ("" while unset)
    stdin,                  \* the lines typed to the last get_multiline_input
    user_text,              \* main's local question / text: None or Text(t)
    reply,                  \* what the provider did on the last call
    io,                     \* what the last save's read and write of the file did
    response,               \* main's local response: None or Text(t)
    console,                \* the messages printed by the last step, in order
    calls,                  \* number of answer_faq / summarize_text calls made so far
    returned,               \* the calls that returned text so far: <<[mode, text]>>
    faulted,                \* whether a read or a write of the file has failed so far
    racers                  \* the processes saving to the one file at the same time (SpecRace)

vars == <<conversation_history, current_mode, file, file0, pc, typed, choice, stdin,
          user_text, reply, io, response, console, calls, returned, faulted, racers>>

-----------------------------------------------------------------------------
(* Bounds of the model *)

\* engine calls (answer_faq / summarize_text) made in one session
MaxCalls == 2
\* lines typed to one get_multiline_input
MaxLines == 5

-----------------------------------------------------------------------------
(* Python values *)

None == [isNone |-> TRUE, text |-> ""]
Text(t) == [isNone |-> FALSE, text |-> t]

\* Python truthiness of an Optional[str]: None and "" are falsy
TruthyNotNone(v) == ~v.isNone
Truthy(v) == ~v.isNone /\ v.text # ""

Char(s, i) == SubSeq(s, i, i)

\* the whitespace str.strip() removes (the ASCII part of it)
Whitespace == {" ", "\t", "\n", "\r"}

RECURSIVE LStrip(_)
LStrip(s) == IF Len(s) > 0 /\ Char(s, 1) \in Whitespace THEN LStrip(SubSeq(s, 2, Len(s))) ELSE s

RECURSIVE RStrip(_)
RStrip(s) == IF Len(s) > 0 /\ Char(s, Len(s)) \in Whitespace THEN RStrip(SubSeq(s, 1, Len(s) - 1)) ELSE s

\* str.strip()
Strip(s) == RStrip(LStrip(s))

LowerLetters == "abcdefghijklmnopqrstuvwxyz"
UpperLetters == "ABCDEFGHIJKLMNOPQRSTUVWXYZ"

UpperChar(c) == IF \E i \in 1..26 : Char(LowerLetters, i) = c THEN Char(UpperLetters, CHOOSE i \in 1..26 : Char(LowerLetters, i) = c) ELSE c

\* str.upper() (ASCII letters), letter by letter, by halves
RECURSIVE Upper(_)
Upper(s) == IF Len(s) <= 1 THEN UpperChar(s) ELSE Upper(SubSeq(s, 1, Len(s) \div 2)) \o Upper(SubSeq(s, Len(s) \div 2 + 1, Len(s)))

\* '\n'.join(lines)
RECURSIVE Join(_)
Join(lines) == IF Len(lines) = 0 THEN "" ELSE IF Len(lines) = 1 THEN lines[1] ELSE lines[1] \o "\n" \o Join(Tail(lines))

RECURSIVE Repeat(_, _)
Repeat(s, n) == IF n = 0 THEN "" ELSE s \o Repeat(s, n - 1)

-----------------------------------------------------------------------------
(* get_multiline_input *)

\* line.upper() == 'CANCEL'; upper() keeps the length of a line, so only a
\* line of that length is compared letter by letter
IsCancelExact(line) == line = "CANCEL"
IsCancel(line) == Len(line) = Len("CANCEL") /\ Upper(line) = "CANCEL"

\* the result of get_multiline_input: return None, return a text, or input()
\* raising EOFError because the typed lines ended before the loop did
Cancelled == [kind |-> "none", text |-> ""]
Collected(t) == [kind |-> "text", text |-> t]
EndOfInput == [kind |-> "eof", text |-> ""]

\* the while loop of get_multiline_input, from line i of the typed lines on,
\* with the locals lines and empty_line_count
RECURSIVE MultilineLoopKeepsEmpty(_, _, _, _)
MultilineLoopKeepsEmpty(typedLines, i, lines, empty_line_count) ==
    IF i > Len(typedLines) THEN EndOfInput
    ELSE LET line == typedLines[i] IN
         IF IsCancel(line) THEN Cancelled
         ELSE IF line = ""
              THEN IF empty_line_count + 1 >= 2
                   THEN Collected(Strip(Join(lines)))
                   ELSE MultilineLoopKeepsEmpty(typedLines, i + 1, Append(lines, line), empty_line_count + 1)
              ELSE MultilineLoopKeepsEmpty(typedLines, i + 1, Append(lines, line), 0)
RECURSIVE MultilineLoop(_, _, _, _)
MultilineLoop(typedLines, i, lines, empty_line_count) ==
    IF i > Len(typedLines) THEN EndOfInput
    ELSE LET line == typedLines[i] IN
         IF IsCancel(line) THEN Cancelled
         ELSE IF line = ""
              THEN IF empty_line_count + 1 >= 2
                   THEN Collected(Strip(Join(lines)))
                   ELSE MultilineLoop(typedLines, i + 1, lines, empty_line_count + 1)
              ELSE MultilineLoop(typedLines, i + 1, Append(lines, line), 0)

get_multiline_input(typedLines) == MultilineLoop(typedLines, 1, <<>>, 0)

-----------------------------------------------------------------------------
(* Configuration (class Config) and the values the environment supplies *)

\* the slice bound and length test of the history fields
TruncLen == 200

\* the f-string of summarize_text
SummarizePrefix == "Please provide a clear and concise summary of the following text:\n\n"

\* datetime.now().strftime("%Y-%m-%d %H:%M:%S"): the wall clock's readings
Clock == {"2025-10-01 12:00:00"}

\* what the try body of send_to_openai can do before the save: raise, or get
\* a content.  "raise" is any exception there: the provider call raising, and
\* in chatbot.py a message.content of None, on which .strip() raises;
\* geminiChatBot.py turns a text of None into the content str(response)
ProviderRaise == [kind |-> "raise", content |-> ""]
ProviderText(c) == [kind |-> "text", content |-> c]
NotCalled == [kind |-> "notcalled", content |-> ""]

-----------------------------------------------------------------------------
(* The history store: chat_history.json and _save_to_history *)

FileMissing == [kind |-> "missing", data |-> <<>>]
\* a file json.load cannot parse (an empty or truncated file included)
FileCorrupt == [kind |-> "corrupt", data |-> <<>>]
\* a file holding valid JSON that is not an array: {}, "x", 3, null
FileNonArray == [kind |-> "nonarray", data |-> <<>>]
FileArray(entries) == [kind |-> "array", data |-> entries]

\* the conditional expressions of the entry's user_input and ai_response
TruncateInclusive(s) == IF Len(s) >= TruncLen THEN SubSeq(s, 1, TruncLen) \o "..." ELSE s
Truncate(s) == IF Len(s) > TruncLen THEN SubSeq(s, 1, TruncLen) \o "..." ELSE s

\* the entry dict built by _save_to_history
Entry(t, mode, user_input, ai_response) ==
    [timestamp |-> t, mode |-> mode, user_input |-> Truncate(user_input), ai_response |-> Truncate(ai_response)]

\* the first try block of _save_to_history; readFault is an OSError raised by
\* open or read on a file that exists
LoadHistoryUncaught(f, readFault) ==
    IF f.kind = "missing" THEN [outcome |-> "absent", history |-> <<>>]
    ELSE IF readFault \/ f.kind = "corrupt" THEN [outcome |-> "notlist", history |-> <<>>]
    ELSE IF f.kind = "nonarray" THEN [outcome |-> "notlist", history |-> <<>>]
    ELSE [outcome |-> "ok", history |-> f.data]
LoadHistory(f, readFault) ==
    IF f.kind = "missing" THEN [outcome |-> "absent", history |-> <<>>]
    ELSE IF readFault \/ f.kind = "corrupt" THEN [outcome |-> "failed", history |-> <<>>]
    ELSE IF f.kind = "nonarray" THEN [outcome |-> "notlist", history |-> <<>>]
    ELSE [outcome |-> "ok", history |-> f.data]

\* history.append(entry) raises AttributeError when json.load gave no list
AppendRaises(loaded) == loaded.outcome = "notlist"

\* the second try block: writeFault is "ok", "open" (open raises, the file is
\* untouched) or "partial" (open truncated the file and the dump then raised)
WriteFaults == {"ok", "open", "partial"}
WriteHistoryEntryOnly(f, history, writeFault) ==
    IF writeFault = "ok" THEN FileArray(<<history[Len(history)]>>)
    ELSE IF writeFault = "open" THEN f
    ELSE FileCorrupt
WriteHistory(f, history, writeFault) ==
    IF writeFault = "ok" THEN FileArray(history)
    ELSE IF writeFault = "open" THEN f
    ELSE FileCorrupt

NoIo == [read |-> "skipped", write |-> "skipped", raised |-> FALSE]

\* what the save printed
SaveWarnings(o) ==
    (IF o.read = "failed" THEN <<"warning_load">> ELSE <<>>) \o (IF o.write = "failed" THEN <<"warning_save">> ELSE <<>>)

SaveWriteUncaught(user_input, ai_response, mode, t, readFault, writeFault) ==
    LET entry == Entry(t, mode, user_input, ai_response)
        loaded == LoadHistory(file, readFault)
    IN  /\ conversation_history' = Append(conversation_history, entry)
        /\ IF AppendRaises(loaded)
           THEN /\ file' = file
                /\ io' = [read |-> "notlist", write |-> "skipped", raised |-> TRUE]
                /\ faulted' = faulted
           ELSE /\ file' = WriteHistory(file, Append(loaded.history, entry), writeFault)
                /\ io' = [read |-> loaded.outcome, write |-> IF writeFault = "ok" THEN "ok" ELSE "failed", raised |-> writeFault # "ok"]
                /\ faulted' = (faulted \/ loaded.outcome = "failed" \/ writeFault # "ok")

_save_to_history(user_input, ai_response, mode, t, readFault, writeFault) ==
    LET entry == Entry(t, mode, user_input, ai_response)
        loaded == LoadHistory(file, readFault)
    IN  /\ conversation_history' = Append(conversation_history, entry)
        /\ IF AppendRaises(loaded)
           THEN /\ file' = file
                /\ io' = [read |-> "notlist", write |-> "skipped", raised |-> TRUE]
                /\ faulted' = faulted
           ELSE /\ file' = WriteHistory(file, Append(loaded.history, entry), writeFault)
                /\ io' = [read |-> loaded.outcome, write |-> IF writeFault = "ok" THEN "ok" ELSE "failed", raised |-> FALSE]
                /\ faulted' = (faulted \/ loaded.outcome = "failed" \/ writeFault # "ok")

-----------------------------------------------------------------------------
(* The conversation engine: send_to_openai, answer_faq, summarize_text *)

\* whether the try body of send_to_openai raises before it reaches the save
ProviderRaisesNever(outcome) == FALSE
ProviderRaises(outcome) == outcome.kind = "raise"

\* ai_response: the content, stripped
ResponseText(outcome) == Strip(outcome.content)

\* send_to_openai with self.current_mode already assigned by the caller (it is
\* read here as current_mode'); the result is left in response'
send_to_openai(user_message, outcome, t, readFault, writeFault) ==
    /\ reply' = outcome
    /\ calls' = calls + 1
    /\ IF ProviderRaises(outcome)
       THEN /\ response' = None
            /\ io' = NoIo
            /\ UNCHANGED <<conversation_history, file, faulted>>
       ELSE /\ _save_to_history(user_message, ResponseText(outcome), current_mode', t, readFault, writeFault)
            /\ response' = IF io'.raised THEN None ELSE Text(ResponseText(outcome))
    /\ returned' = IF response'.isNone THEN returned ELSE Append(returned, [mode |-> current_mode', text |-> response'.text])

\* what send_to_openai printed: the save's warnings, then the except clause's
\* error message when it returned None
EngineMessages(o, r) == SaveWarnings(o) \o (IF r.isNone THEN <<"api_error">> ELSE <<>>)

AnswerFaqKeepsMode(question, outcome, t, readFault, writeFault) ==
    /\ current_mode' = current_mode
    /\ send_to_openai(question, outcome, t, readFault, writeFault)
answer_faq(question, outcome, t, readFault, writeFault) ==
    /\ current_mode' = "FAQ"
    /\ send_to_openai(question, outcome, t, readFault, writeFault)

\* prompt = f"Please provide ... following text:\n\n{text}"
SummarizePrompt(text) == SummarizePrefix \o text

summarize_text(text, outcome, t, readFault, writeFault) ==
    /\ current_mode' = "SUMMARIZE"
    /\ send_to_openai(SummarizePrompt(text), outcome, t, readFault, writeFault)

-----------------------------------------------------------------------------
(* The console: get_user_choice, format_response, main *)

\* choice in ['1', '2', '3', '4'] after .strip()
ValidChoiceNoStrip(line) == line \in {"1", "2", "3", "4"}
ValidChoice(line) == Strip(line) \in {"1", "2", "3", "4"}

\* format_response: which of its two branches prints
FormatResponse(r) == IF Truthy(r) THEN "response_block" ELSE "failure_message"

\* the texts of the session
LongText == Repeat("0123456789", 20) \o "x"

\* what the user may type at the choice prompt
ChoiceInputs == {"1", " 2 ", "3", "4", "", "5", " x"}
\* what the user may type at the question prompt
QuestionInputs == {"", "  ", " hi "}
\* what the user may type as the text to summarize
MenuScripts == {<<"CANCEL">>, <<"", "">>, <<"abc", "", "">>, <<LongText, "", "">>}
\* what the provider may answer
Replies == {" ok ", "  "}
Outcomes == {ProviderRaise} \cup {ProviderText(c) : c \in Replies}

OldEntry == [timestamp |-> "2025-09-30 09:00:00", mode |-> "FAQ", user_input |-> "old question", ai_response |-> "old answer"]
InitialFiles == {FileMissing, FileCorrupt, FileNonArray, FileArray(<<OldEntry>>)}

\* a single process runs: nothing else saves to the file
NoRacers == [proc |-> <<>>, writer |-> 0]

\* the chatbot object as AIChatbot.__init__ leaves it
Constructed ==
    /\ conversation_history = <<>>
    /\ current_mode = "None"
    /\ calls = 0
    /\ returned = <<>>
    /\ faulted = FALSE
    /\ racers = NoRacers

\* no line read, no call made yet
NothingRead ==
    /\ typed = ""
    /\ choice = ""
    /\ stdin = <<>>
    /\ user_text = None
    /\ reply = NotCalled
    /\ io = NoIo
    /\ response = None

Init ==
    /\ Constructed
    /\ NothingRead
    /\ file \in InitialFiles
    /\ file0 = file
    /\ pc = "menu"
    /\ console = <<"welcome", "initialized", "menu">>

\* get_user_choice reads a line that is no valid choice: it prints the error and
\* prompts again
InvalidChoice ==
    /\ UNCHANGED racers
    /\ pc = "menu"
    /\ \E line \in ChoiceInputs :
          /\ ~ValidChoice(line)
          /\ typed' = line
    /\ console' = <<"invalid_choice">>
    /\ UNCHANGED <<conversation_history, current_mode, file, file0, pc, choice, stdin,
                   user_text, reply, io, response, calls, returned, faulted>>

\* choice '1': the question is read and stripped, and asked when it is not empty
AskFaq ==
    /\ UNCHANGED racers
    /\ pc = "menu"
    /\ \E line \in ChoiceInputs, q \in QuestionInputs :
          /\ ValidChoice(line) /\ Strip(line) = "1"
          /\ typed' = line
          /\ choice' = Strip(line)
          /\ user_text' = Text(Strip(q))
          /\ IF Strip(q) # ""
             THEN /\ calls < MaxCalls
                  /\ \E outcome \in Outcomes, t \in Clock, readFault \in BOOLEAN, writeFault \in WriteFaults :
                        answer_faq(Strip(q), outcome, t, readFault, writeFault)
                  /\ console' = <<"processing">> \o EngineMessages(io', response') \o <<FormatResponse(response')>>
             ELSE /\ console' = <<"question_empty">>
                  /\ UNCHANGED <<conversation_history, current_mode, file, reply, io, response, calls, returned, faulted>>
    /\ pc' = "continue"
    /\ UNCHANGED <<file0, stdin>>

\* choice '2': the text is read by get_multiline_input and summarized when truthy
Summarize ==
    /\ UNCHANGED racers
    /\ pc = "menu"
    /\ \E line \in ChoiceInputs, script \in MenuScripts :
          /\ ValidChoice(line) /\ Strip(line) = "2"
          /\ get_multiline_input(script).kind # "eof"
          /\ typed' = line
          /\ choice' = Strip(line)
          /\ stdin' = script
          /\ user_text' = IF get_multiline_input(script).kind = "none" THEN None ELSE Text(get_multiline_input(script).text)
          /\ IF Truthy(user_text')
             THEN /\ calls < MaxCalls
                  /\ \E outcome \in Outcomes, t \in Clock, readFault \in BOOLEAN, writeFault \in WriteFaults :
                        summarize_text(user_text'.text, outcome, t, readFault, writeFault)
                  /\ console' = <<"generating">> \o EngineMessages(io', response') \o <<FormatResponse(response')>>
             ELSE /\ console' = IF user_text'.isNone THEN <<"cancelled">> ELSE <<"text_empty">>
                  /\ UNCHANGED <<conversation_history, current_mode, file, reply, io, response, calls, returned, faulted>>
    /\ pc' = "continue"
    /\ UNCHANGED <<file0>>

\* choice '3': view_history prints the session list
ViewHistory ==
    /\ UNCHANGED racers
    /\ pc = "menu"
    /\ \E line \in ChoiceInputs :
          /\ ValidChoice(line) /\ Strip(line) = "3"
          /\ typed' = line
          /\ choice' = Strip(line)
    /\ console' = IF conversation_history = <<>> THEN <<"no_history">> ELSE <<"history_listing">>
    /\ pc' = "continue"
    /\ UNCHANGED <<conversation_history, current_mode, file, file0, stdin,
                   user_text, reply, io, response, calls, returned, faulted>>

\* choice '4': the farewell is printed and the loop ends
ExitWithoutBreak ==
    /\ UNCHANGED racers
    /\ pc = "menu"
    /\ \E line \in ChoiceInputs :
          /\ ValidChoice(line) /\ Strip(line) = "4"
          /\ typed' = line
          /\ choice' = Strip(line)
    /\ console' = <<"farewell">>
    /\ pc' = "continue"
    /\ UNCHANGED <<conversation_history, current_mode, file, file0, stdin,
                   user_text, reply, io, response, calls, returned, faulted>>
Exit ==
    /\ UNCHANGED racers
    /\ pc = "menu"
    /\ \E line \in ChoiceInputs :
          /\ ValidChoice(line) /\ Strip(line) = "4"
          /\ typed' = line
          /\ choice' = Strip(line)
    /\ console' = <<"farewell">>
    /\ pc' = "done"
    /\ UNCHANGED <<conversation_history, current_mode, file, file0, stdin,
                   user_text, reply, io, response, calls, returned, faulted>>

\* "Press Enter to continue...", then the next iteration shows the menu; the
\* locals of the finished iteration are dead and are cleared
PressEnter ==
    /\ UNCHANGED racers
    /\ pc = "continue"
    /\ pc' = "menu"
    /\ typed' = ""
    /\ choice' = ""
    /\ stdin' = <<>>
    /\ user_text' = None
    /\ reply' = NotCalled
    /\ io' = NoIo
    /\ response' = None
    /\ console' = <<"menu">>
    /\ UNCHANGED <<conversation_history, current_mode, file, file0, calls, returned, faulted>>

\* input() raises EOFError (the input ended) or KeyboardInterrupt at a prompt:
\* nothing in main catches it, and the process ends with its locals
InputEnds ==
    /\ UNCHANGED racers
    /\ pc \in {"menu", "continue"}
    /\ pc' = "crashed"
    /\ typed' = ""
    /\ choice' = ""
    /\ stdin' = <<>>
    /\ user_text' = None
    /\ reply' = NotCalled
    /\ io' = NoIo
    /\ response' = None
    /\ console' = <<"traceback">>
    /\ UNCHANGED <<conversation_history, current_mode, file, file0, calls, returned, faulted>>

Next ==
    \/ InvalidChoice
    \/ AskFaq
    \/ Summarize
    \/ ViewHistory
    \/ Exit
    \/ PressEnter
    \/ InputEnds

Spec == Init /\ [][Next]_vars

-----------------------------------------------------------------------------
(* get_multiline_input on its own: every sequence of typed lines *)

Lines == {"", " ", "line1", "line2", "CANCEL", "cAnCeL", "cancel "}
Scripts == UNION {[1..n -> Lines] : n \in 0..MaxLines}

InitInput ==
    /\ Constructed
    /\ typed = ""
    /\ choice = "2"
    /\ stdin \in Scripts
    /\ user_text = None
    /\ reply = NotCalled
    /\ io = NoIo
    /\ response = None
    /\ file = FileMissing
    /\ file0 = file
    /\ pc = "input"
    /\ console = <<"prompt">>

\* text = get_multiline_input(...) on the typed lines
ReadText ==
    /\ UNCHANGED racers
    /\ pc = "input"
    /\ IF get_multiline_input(stdin).kind = "eof"
       THEN /\ pc' = "crashed"
            /\ console' = <<"traceback">>
            /\ user_text' = user_text
       ELSE /\ pc' = "input_done"
            /\ console' = <<>>
            /\ user_text' = IF get_multiline_input(stdin).kind = "none" THEN None ELSE Text(get_multiline_input(stdin).text)
    /\ UNCHANGED <<conversation_history, current_mode, file, file0, typed, choice, stdin,
                   reply, io, response, calls, returned, faulted>>

NextInput == ReadText

SpecInput == InitInput /\ [][NextInput]_vars

-----------------------------------------------------------------------------
(* _save_to_history on its own: texts of every length around the limit *)

Digits == Repeat("0123456789", 2 * (TruncLen \div 10) + 1)
TextOfLen(n) == SubSeq(Digits, 1, n)
SaveLengths == {0, 1, TruncLen - 1, TruncLen, TruncLen + 1, TruncLen + 2, 2 * TruncLen}
SaveTexts == {TextOfLen(n) : n \in SaveLengths}

\* user_text holds the argument user_input, response the argument ai_response
\* and current_mode the argument mode
InitSave ==
    /\ conversation_history = <<>>
    /\ current_mode \in {"FAQ", "SUMMARIZE"}
    /\ calls = 0
    /\ returned = <<>>
    /\ faulted = FALSE
    /\ racers = NoRacers
    /\ typed = ""
    /\ choice = ""
    /\ stdin = <<>>
    /\ user_text \in {Text(t) : t \in SaveTexts}
    /\ response \in {Text(t) : t \in SaveTexts}
    /\ reply = NotCalled
    /\ io = NoIo
    /\ file \in InitialFiles
    /\ file0 = file
    /\ pc = "save"
    /\ console = <<>>

SaveEntry ==
    /\ UNCHANGED racers
    /\ pc = "save"
    /\ \E t \in Clock, readFault \in BOOLEAN, writeFault \in WriteFaults :
          _save_to_history(user_text.text, response.text, current_mode, t, readFault, writeFault)
    /\ pc' = IF io'.raised THEN "save_raised" ELSE "saved"
    /\ console' = SaveWarnings(io')
    /\ UNCHANGED <<current_mode, file0, typed, choice, stdin, user_text, reply, response, calls, returned>>

NextSave == SaveEntry

SpecSave == InitSave /\ [][NextSave]_vars

-----------------------------------------------------------------------------
(* Two processes, each a run of the program, saving to the one file: the   *)
(* steps of _save_to_history taken one file operation at a time            *)

Procs == {1, 2}
Modes == {"FAQ", "SUMMARIZE"}

\* the user_message process p saves
RaceMessage(p) == IF p = 1 THEN "first" ELSE "second"

\* a process before its save: its session list is empty
Idle == [pc |-> "idle", session |-> <<>>, entry |-> OldEntry, history |-> <<>>, read |-> "skipped", fault |-> "ok", overlaid |-> FALSE]

InitRace ==
    /\ conversation_history = <<>>
    /\ current_mode = "None"
    /\ calls = 0
    /\ returned = <<>>
    /\ faulted = FALSE
    /\ NothingRead
    /\ file \in InitialFiles
    /\ file0 = file
    /\ pc = "race"
    /\ console = <<>>
    /\ racers = [proc |-> [p \in Procs |-> Idle], writer |-> 0]

RaceFrame ==
    UNCHANGED <<conversation_history, current_mode, file0, pc, typed, choice, stdin,
                user_text, reply, io, response, console, calls, returned, faulted>>

\* the provider answered process p: the entry is built and appended to the
\* session list of p
RaceAppend(p) ==
    /\ racers.proc[p].pc = "idle"
    /\ \E mode \in Modes, content \in Replies, t \in Clock :
          racers' = [racers EXCEPT !.proc[p].pc = "appended",
                                   !.proc[p].entry = Entry(t, mode, RaceMessage(p), Strip(content)),
                                   !.proc[p].session = Append(@, Entry(t, mode, RaceMessage(p), Strip(content)))]
    /\ file' = file
    /\ RaceFrame

\* the first try block and history.append(entry) of process p
RaceLoad(p) ==
    /\ racers.proc[p].pc = "appended"
    /\ \E readFault \in BOOLEAN :
          LET loaded == LoadHistory(file, readFault) IN
          racers' = [racers EXCEPT !.proc[p].pc = IF AppendRaises(loaded) THEN "raised" ELSE "loaded",
                                   !.proc[p].read = loaded.outcome,
                                   !.proc[p].history = IF AppendRaises(loaded) THEN <<>> ELSE Append(loaded.history, racers.proc[p].entry)]
    /\ file' = file
    /\ RaceFrame

\* open(Config.HISTORY_FILE, 'w') of process p: it raises, or it truncates the
\* file
RaceOpen(p) ==
    /\ racers.proc[p].pc = "loaded"
    /\ \E writeFault \in WriteFaults :
          IF writeFault = "open"
          THEN /\ racers' = [racers EXCEPT !.proc[p].pc = "done", !.proc[p].fault = "open"]
               /\ file' = WriteHistory(file, racers.proc[p].history, "open")
          ELSE /\ racers' = [racers EXCEPT !.proc[p].pc = "opened", !.proc[p].fault = writeFault]
               /\ file' = FileCorrupt
    /\ RaceFrame

\* json.dump of process p and the close of its file: the data goes to the
\* start of the file; what another process wrote since p opened the file is
\* overwritten from the start, and what is longer than p's data stays behind
\* it (the file then is no JSON)
RaceDump(p) ==
    /\ racers.proc[p].pc = "opened"
    /\ \E leftover \in BOOLEAN :
          /\ leftover => racers.proc[p].overlaid
          /\ file' = IF leftover THEN FileCorrupt ELSE WriteHistory(file, racers.proc[p].history, racers.proc[p].fault)
          /\ racers' = [proc |-> [q \in Procs |->
                                    IF q = p THEN [racers.proc[p] EXCEPT !.pc = "done"]
                                    ELSE IF racers.proc[q].pc = "opened" /\ racers.proc[p].fault = "ok"
                                         THEN [racers.proc[q] EXCEPT !.overlaid = TRUE]
                                         ELSE racers.proc[q]],
                        writer |-> IF racers.proc[p].fault = "ok" /\ ~leftover THEN p ELSE racers.writer]
    /\ RaceFrame

NextRace ==
    \E p \in Procs :
       \/ RaceAppend(p)
       \/ RaceLoad(p)
       \/ RaceOpen(p)
       \/ RaceDump(p)

SpecRace == InitRace /\ [][NextRace]_vars

-----------------------------------------------------------------------------
(* Properties *)

EngineCalled == calls' = calls + 1
Last(seq) == seq[Len(seq)]

\* the truncation rule as the specification words it: the first 200 characters
\* and the marker for a longer text, the text itself otherwise
RecordedAs(field, text) ==
    IF Len(text) > 200
    THEN Len(field) = 203 /\ SubSeq(field, 1, 200) = SubSeq(text, 1, 200) /\ SubSeq(field, 201, 203) = "..."
    ELSE field = text

\* C1: after any sequence of calls of which N returned text, the session list
\* holds exactly N entries in the order of those calls, and, when the history
\* file is readable and writable, the file holds the array of before the
\* session followed by those N entries.
C1_SessionAndFileHoldReturned ==
    /\ Len(conversation_history) = Len(returned)
    /\ \A i \in 1..Len(conversation_history) :
          i <= Len(returned) =>
             /\ conversation_history[i].mode = returned[i].mode
             /\ RecordedAs(conversation_history[i].ai_response, returned[i].text)
    /\ (~faulted /\ file0.kind \in {"array", "missing"}) =>
          /\ file.data = file0.data \o conversation_history
          /\ conversation_history # <<>> => file.kind = "array"

C3_EntryIffTextReturned ==
    [][EngineCalled =>
          /\ (conversation_history' # conversation_history) <=> ~response'.isNone
          /\ response'.isNone => (conversation_history' = conversation_history /\ file' = file)]_vars

\* C4: a text longer than 200 characters is recorded as its first 200
\* characters followed by "..." (203 characters); a text of at most 200
\* characters, the empty text included, is recorded unchanged.
C4_FieldsTruncated ==
    pc \in {"saved", "save_raised"} =>
       /\ Len(conversation_history) = 1
       /\ RecordedAs(conversation_history[1].user_input, user_text.text)
       /\ RecordedAs(conversation_history[1].ai_response, response.text)
       /\ (io.write = "ok" => file.data # <<>> /\ Last(file.data) = conversation_history[1])

\* a user_input of 201 characters was cut to 203 and an ai_response of exactly
\* 200 characters was kept whole
C4_Witness ==
    /\ pc = "saved"
    /\ Len(user_text.text) = 201
    /\ Len(conversation_history[1].user_input) = 203
    /\ Len(response.text) = 200
    /\ conversation_history[1].ai_response = response.text

\* C5: the user_input recorded for a call that returned text is the text the
\* user gave (the question, the text to summarize), truncated by the rule.
C5_UserInputIsOriginalText ==
    (pc = "continue" /\ choice \in {"1", "2"} /\ ~response.isNone) =>
       RecordedAs(Last(conversation_history).user_input, user_text.text)

\* the file could not be used as the existing history: it is missing, or the
\* read or the parse of it failed
ReadFoundNothing == file.kind \in {"missing", "corrupt"} \/ io'.read = "failed"
ProviderAnswered == EngineCalled /\ reply'.kind = "text"

\* C6 as claimed: when the file is missing or cannot be read or parsed, the
\* save adds the entry to the session list, leaves the file holding exactly
\* that one entry, and the call returns the provider's text.
C6_UnreadableFileReplaced ==
    [][(ProviderAnswered /\ ReadFoundNothing) =>
          /\ conversation_history' = Append(conversation_history, Last(conversation_history'))
          /\ file' = FileArray(<<Last(conversation_history')>>)
          /\ response' = Text(Strip(reply'.content))]_vars

\* C6 as amended: the same, the file holding exactly the one new entry when
\* the write of it succeeds.
C6_UnreadableFileReplacedIfWritten ==
    [][(ProviderAnswered /\ ReadFoundNothing) =>
          /\ conversation_history' = Append(conversation_history, Last(conversation_history'))
          /\ io'.write = "ok" => file' = FileArray(<<Last(conversation_history')>>)
          /\ response' = Text(Strip(reply'.content))]_vars

\* the file held an earlier entry, its read failed, and the file now holds the
\* new entry alone
C6_Witness ==
    /\ pc = "continue"
    /\ file0 = FileArray(<<OldEntry>>)
    /\ calls = 1
    /\ io.read = "failed"
    /\ io.write = "ok"
    /\ ~response.isNone
    /\ file = FileArray(conversation_history)
    /\ Len(conversation_history) = 1

\* C7: when the read or the write of the file fails during the save after a
\* provider answer, the call still returns the provider's text and the entry
\* is in the session list; a failed write leaves the file without the entry.
C7_FileFailureKeepsResponse ==
    [][(ProviderAnswered /\ (io'.read = "failed" \/ io'.write = "failed")) =>
          /\ response' = Text(Strip(reply'.content))
          /\ pc' = "continue"
          /\ Len(conversation_history') = Len(conversation_history) + 1
          /\ SubSeq(conversation_history', 1, Len(conversation_history)) = conversation_history
          /\ RecordedAs(Last(conversation_history').ai_response, response'.text)
          /\ io'.write = "failed" => file' \in {file, FileCorrupt}]_vars

\* the write failed, the file is as it was, and the call returned the text
\* with its entry in the session list
C7_Witness ==
    /\ pc = "continue"
    /\ io.write = "failed"
    /\ file = file0
    /\ file0 = FileArray(<<OldEntry>>)
    /\ response = Text("ok")
    /\ Len(conversation_history) = 1
    /\ conversation_history[1].ai_response = "ok"

\* the first point of the typed lines where two consecutive empty lines have
\* been read, and the first line that is CANCEL in some letter case (0: none)
Least(S) == IF S = {} THEN 0 ELSE CHOOSE x \in S : \A y \in S : x <= y
TerminatorPoint(typedLines) == Least({i \in 2..Len(typedLines) : typedLines[i - 1] = "" /\ typedLines[i] = ""})
CancelPoint(typedLines) == Least({i \in 1..Len(typedLines) : Upper(typedLines[i]) = "CANCEL"})
NonEmptyLine(line) == line # ""
NonEmptyLinesJoined(typedLines, n) == Join(SelectSeq(SubSeq(typedLines, 1, n), NonEmptyLine))
StopsAtTerminator(typedLines) ==
    /\ TerminatorPoint(typedLines) > 0
    /\ CancelPoint(typedLines) = 0 \/ TerminatorPoint(typedLines) < CancelPoint(typedLines)
StopsAtCancel(typedLines) ==
    /\ CancelPoint(typedLines) > 0
    /\ TerminatorPoint(typedLines) = 0 \/ CancelPoint(typedLines) < TerminatorPoint(typedLines)

\* C8 as claimed: get_multiline_input stops at the first two consecutive empty
\* lines and returns the non-empty lines read so far joined by newlines; a
\* CANCEL line (any letter case) read before that point makes it return None.
C8_LinesJoinedOrCancelled ==
    pc # "input" =>
       /\ StopsAtTerminator(stdin) =>
             pc = "input_done" /\ user_text = Text(NonEmptyLinesJoined(stdin, TerminatorPoint(stdin)))
       /\ StopsAtCancel(stdin) => pc = "input_done" /\ user_text = None

\* C8 as amended: the same, the joined text being returned with its leading
\* and trailing whitespace stripped.
C8_LinesJoinedStrippedOrCancelled ==
    pc # "input" =>
       /\ StopsAtTerminator(stdin) =>
             pc = "input_done" /\ user_text = Text(Strip(NonEmptyLinesJoined(stdin, TerminatorPoint(stdin))))
       /\ StopsAtCancel(stdin) => pc = "input_done" /\ user_text = None

\* the lines "line1", "line2", "", "" were read and gave "line1\nline2"
C8_Witness ==
    /\ pc = "input_done"
    /\ stdin = <<"line1", "line2", "", "">>
    /\ user_text = Text("line1\nline2")

\* C9: a line read at the choice prompt that is not 1, 2, 3 or 4 after trimming
\* leaves the loop at the prompt with no provider call, history write or exit;
\* the choice handed to main is the trimmed valid line only.
C9_InvalidChoiceReprompts ==
    [][(pc = "menu" /\ pc' # "crashed") =>
          IF Strip(typed') \in {"1", "2", "3", "4"}
          THEN choice' = Strip(typed') /\ pc' \in {"continue", "done"}
          ELSE /\ pc' = "menu"
               /\ console' = <<"invalid_choice">>
               /\ UNCHANGED <<choice, conversation_history, current_mode, file, calls, reply, io, response, returned>>]_vars

\* after one recorded call the user typed "5": the prompt is shown again and
\* the session is as the call left it
C9_Witness ==
    /\ pc = "menu"
    /\ typed = "5"
    /\ choice = ""
    /\ console = <<"invalid_choice">>
    /\ calls = 1
    /\ Len(conversation_history) = 1

\* C10: format_response prints the response block for every response that is
\* not None, the empty text included, and the failure message for None only.
C10_BlockIffNotNone ==
    (pc = "continue" /\ choice \in {"1", "2"} /\ reply.kind # "notcalled") =>
       (Last(console) = "response_block" <=> ~response.isNone)

\* C11: the loop ends (pc = "done") through choice 4 and through nothing else;
\* a call in which the provider call or the read or write of the history file
\* failed leaves the loop at "Press Enter", from where the menu takes further
\* choices; after choice 4 no provider call and no history write happens.
C11_LoopEndsOnlyByChoice4 ==
    /\ [](pc = "continue" => ENABLED PressEnter)
    /\ [](pc = "menu" => (ENABLED Exit /\ ENABLED ViewHistory /\ ENABLED InvalidChoice))
    /\ [][/\ (pc' = "done" /\ pc # "done") => (pc = "menu" /\ Strip(typed') = "4" /\ choice' = "4")
          /\ (pc = "menu" /\ choice' = "4") => pc' = "done"
          /\ (EngineCalled /\ (response'.isNone \/ io'.read = "failed" \/ io'.write = "failed")) => pc' = "continue"
          /\ pc = "done" => UNCHANGED <<calls, reply, conversation_history, file, pc>>]_vars

\* the loop has ended by choice 4 after two calls, one of which recorded
\* nothing, and after a failed read or write of the history file
C11_Witness ==
    /\ pc = "done"
    /\ choice = "4"
    /\ calls = 2
    /\ Len(returned) = 1
    /\ faulted

\* C12: with two processes saving to the same file the read-modify-write is
\* not atomic: the file holds what its last writer read followed by that
\* writer's entry, whatever another process wrote in between, while every
\* process keeps its own entry in its session list.
C12_LastWriterWins ==
    /\ \A p \in Procs :
          racers.proc[p].pc # "idle" => racers.proc[p].session = <<racers.proc[p].entry>>
    /\ file.kind = "array" =>
          IF racers.writer = 0 THEN file = file0
          ELSE file.data = racers.proc[racers.writer].history
    /\ \A p \in Procs :
          racers.proc[p].pc \in {"loaded", "opened", "done"} =>
             /\ Len(racers.proc[p].history) >= 1
             /\ Last(racers.proc[p].history) = racers.proc[p].entry

\* both processes read the file's one earlier entry, both wrote, process 2
\* last: the file holds the earlier entry and the entry of process 2, and the
\* entry of process 1 is in the session list of process 1 only
C12_Witness ==
    /\ file0 = FileArray(<<OldEntry>>)
    /\ \A p \in Procs : racers.proc[p].pc = "done" /\ racers.proc[p].fault = "ok" /\ racers.proc[p].read = "ok"
    /\ \A p \in Procs : racers.proc[p].entry.ai_response = "ok"
    /\ racers.proc[1].history = <<OldEntry, racers.proc[1].entry>>
    /\ racers.proc[2].history = <<OldEntry, racers.proc[2].entry>>
    /\ racers.writer = 2
    /\ file = FileArray(<<OldEntry, racers.proc[2].entry>>)
    /\ \A i \in 1..Len(file.data) : file.data[i] # racers.proc[1].entry
    /\ racers.proc[1].session = <<racers.proc[1].entry>>

\* an entry with its four fields set and its mode one of the two operations'
EntryFields == {"timestamp", "mode", "user_input", "ai_response"}
FieldsSet(e) ==
    /\ DOMAIN e = EntryFields
    /\ e.timestamp \in Clock
    /\ e.mode \in Modes
    /\ e.user_input # ""
SessionEntriesSet ==
    /\ \A i \in 1..Len(conversation_history) : FieldsSet(conversation_history[i])
    /\ file.kind = "array" =>
          \A i \in 1..Len(file.data) :
             \/ \E j \in 1..Len(file0.data) : file.kind = file0.kind /\ file.data[i] = file0.data[j]
             \/ \E j \in 1..Len(conversation_history) : file.data[i] = conversation_history[j]

\* C13: after any sequence of answer_faq and summarize_text calls every entry
\* of the session list, and every entry of the file that was not there before
\* the session, has its four fields set with mode FAQ or SUMMARIZE, never
\* null; a call adds at most one entry, at the end, and its mode is FAQ when
\* the call was answer_faq (choice 1) and SUMMARIZE when it was summarize_text
\* (choice 2).
C13_EntriesCarryOperationMode ==
    /\ []SessionEntriesSet
    /\ [][/\ conversation_history' # conversation_history =>
                /\ EngineCalled
                /\ conversation_history' = Append(conversation_history, Last(conversation_history'))
                /\ Last(conversation_history').mode = (IF choice' = "1" THEN "FAQ" ELSE "SUMMARIZE")
                /\ choice' \in {"1", "2"}
                /\ file'.kind = "array" /\ file' # file => Last(file'.data) = Last(conversation_history')
          /\ file' # file => conversation_history' # conversation_history]_vars

C13_Witness ==
    /\ Len(conversation_history) = 2
    /\ conversation_history[1].mode = "FAQ"
    /\ conversation_history[2].mode = "SUMMARIZE"
    /\ file = FileArray(<<OldEntry>> \o conversation_history)

\* a menu iteration that does not reach the provider: view history, an empty
\* question, a cancelled or empty text to summarize
NoProviderIteration ==
    /\ pc = "menu"
    /\ \/ choice' = "3"
       \/ choice' = "1" /\ user_text'.text = ""
       \/ choice' = "2" /\ (user_text'.isNone \/ user_text'.text = "")

\* C14: choice 3, choice 1 with a question that is empty after trimming, and
\* choice 2 with a cancelled or empty text make no provider call, neither read
\* nor write the history file, and leave the session list and current_mode as
\* they were; the loop goes on to Press Enter and from there to the menu.
C14_NoProviderIterationChangesNothing ==
    /\ [](pc = "continue" => ENABLED (PressEnter /\ pc' = "menu"))
    /\ [][NoProviderIteration =>
             /\ pc' = "continue"
             /\ ~EngineCalled
             /\ UNCHANGED <<calls, reply, response, io, file, conversation_history, current_mode, returned, faulted>>]_vars

\* after one answered question, an empty text to summarize was entered
C14_Witness ==
    /\ pc = "continue"
    /\ choice = "2"
    /\ user_text = Text("")
    /\ calls = 1
    /\ current_mode = "FAQ"
    /\ Len(conversation_history) = 1
    /\ file.kind = "array" /\ Last(file.data) = conversation_history[1]

\* a text with no empty line: no two newlines in a row, none at either end
NoEmptyLine(t) ==
    /\ \A i \in 1..(Len(t) - 1) : SubSeq(t, i, i + 1) # "\n\n"
    /\ Len(t) >= 1 => (SubSeq(t, 1, 1) # "\n" /\ SubSeq(t, Len(t), Len(t)) # "\n")

\* C15: the text get_multiline_input returns has no empty line, every empty
\* line read being dropped: "line1", "", "line2", "", "" gives "line1\nline2";
\* a non-empty line sets the count of consecutive empty lines back to 0, so a
\* text is returned only where two empty lines in a row were read, and the
\* typed lines run out (EOFError) when neither that nor CANCEL occurs in them.
C15_NoEmptyLineReturned ==
    pc # "input" =>
       /\ (pc = "input_done" /\ ~user_text.isNone) =>
             /\ NoEmptyLine(user_text.text)
             /\ TerminatorPoint(stdin) > 0
             /\ \A i \in 1..(TerminatorPoint(stdin) - 2) : ~(stdin[i] = "" /\ stdin[i + 1] = "")
       /\ (TerminatorPoint(stdin) = 0 /\ CancelPoint(stdin) = 0) => pc = "crashed"
       /\ stdin = <<"line1", "", "line2", "", "">> => user_text = Text("line1\nline2")

\* the lines "line1", "", "line2", "", "" were read and gave "line1\nline2"
C15_Witness ==
    /\ pc = "input_done"
    /\ stdin = <<"line1", "", "line2", "", "">>
    /\ user_text = Text("line1\nline2")
    /\ NoEmptyLine(user_text.text)

====
